---- MODULE Spec2Model ----
(***************************************************************************)
(* Model of the relay engine of src/src/serve.rs: startup (Serve::run),    *)
(* the outbound client pool (Client::new, Client::next, get_client), the   *)
(* auth gate (verify_api_key) and the per-request pipeline (translate).    *)
(* Each inbound /translate request is one process; the only shared mutable *)
(* state is the pool's rotation cursor.                                    *)
(***************************************************************************)
EXTENDS Integers, Sequences, FiniteSets, TLC

(* ---------------------------- bounds ---------------------------------- *)
NumReq == 2          \* inbound requests handled concurrently
MaxProxies == 3      \* longest proxy list given at startup
MaxTextLen == 3      \* longest request text
MaxNow == 12         \* latest clock reading, in ms

Reqs == 1..NumReq

(* ------------------------- program constants -------------------------- *)
TOO_MANY_REQUESTS == 429     \* StatusCode::TOO_MANY_REQUESTS

(* ------------------------------ inputs -------------------------------- *)
NoKey == "<none>"                     \* Option::None of api_key / bearer
Keys == {"k1"}                        \* configurable API keys
Tokens == {"k1", "K1"}                \* bearer tokens a caller may present
\* upstream HTTP statuses, one or two of each class (redirects are not
\* followed, so a 3xx reaches the handler)
Statuses == {101, 200, 302, 404, 429, 500}

(* Option<Vec<String>> of proxy addresses: some=FALSE is None; each address *)
(* is "ok" (reqwest::Proxy::all accepts it) or "bad" (it is rejected).      *)
RECURSIVE SeqsUpTo(_, _)
SeqsUpTo(S, n) ==
    IF n = 0 THEN {<<>>}
    ELSE LET shorter == SeqsUpTo(S, n - 1)
         IN  shorter \cup {Append(s, x) : s \in shorter, x \in S}

ProxyConfigs ==
    {[some |-> FALSE, addrs |-> <<>>]}
      \cup {[some |-> TRUE, addrs |-> a] : a \in SeqsUpTo({"ok", "bad"}, MaxProxies)}

(* ------------------------- serde_json::Value -------------------------- *)
Absent == [t |-> "absent"]            \* Option::None of a lookup
Null == [t |-> "null"]
Num(n) == [t |-> "num", n |-> n]
Str(s) == [t |-> "str", s |-> s]
Arr(a) == [t |-> "arr", a |-> a]
Obj(o) == [t |-> "obj", o |-> o]

\* Value::get(&str): Some only on an object that has the key
Get(v, key) ==
    IF v.t = "obj" /\ key \in DOMAIN v.o THEN v.o[key] ELSE Absent

\* Value::get(usize): Some only on an array long enough (0-based index i)
GetIdx(v, i) ==
    IF v.t = "arr" /\ i + 1 <= Len(v.a) THEN v.a[i + 1] ELSE Absent

\* Value::as_array / Value::as_str, Option-flattened
AsArray(v) == IF v.t = "arr" THEN v ELSE Absent
AsStr(v) == IF v.t = "str" THEN v ELSE Absent

\* Option::is_some of a lookup
IsSome(v) == v.t # "absent"

(* upstream reply bodies: NotJson stands for a body serde_json rejects; the *)
(* others are parsed values of assorted shapes                              *)
NotJson == [t |-> "notjson"]

BodyHallo ==      \* {"result":{"texts":[{"text":"Hallo","alternatives":[{"text":"Hi"},{"text":"Hey"}]}]}}
    Obj("result" :> Obj("texts" :> Arr(<<
        Obj("text" :> Str("Hallo") @@
            "alternatives" :> Arr(<<Obj("text" :> Str("Hi")), Obj("text" :> Str("Hey"))>>))>>)))
BodyNoTexts ==    \* {"result":{}}
    Obj("result" :> Obj(<<>>))
BodyMixedAlts ==  \* {"result":{"texts":[{"text":1,"alternatives":[{"text":2},"Hi",{"text":"Hey"}]}]}}
    Obj("result" :> Obj("texts" :> Arr(<<
        Obj("text" :> Num(1) @@
            "alternatives" :> Arr(<<Obj("text" :> Num(2)), Str("Hi"), Obj("text" :> Str("Hey"))>>))>>)))
BodyNested ==     \* {"result":{"texts":[[{"alternatives":[{"text":"Hi"}]}]]}}
    Obj("result" :> Obj("texts" :> Arr(<<
        Arr(<<Obj("alternatives" :> Arr(<<Obj("text" :> Str("Hi"))>>))>>)>>)))

JsonBodies ==
    {BodyHallo, BodyNoTexts, BodyMixedAlts, BodyNested}
Bodies == JsonBodies \cup {NotJson}

(* ------------------------- response extraction ------------------------ *)
\* body.get("result") -> .get("texts") -> as_array -> .get(0)
TextsZero(body) == GetIdx(AsArray(Get(Get(body, "result"), "texts")), 0)

\* the strings pushed by the inner loop over one `alternatives` array
RECURSIVE TextsOf(_)
TextsOf(a) ==
    IF a = <<>> THEN <<>>
    ELSE LET s == AsStr(Get(Head(a), "text"))
         IN  (IF IsSome(s) THEN <<s.s>> ELSE <<>>) \o TextsOf(Tail(a))

\* the outer loop: every element of the array it is given contributes the
\* texts of its own `alternatives` array
RECURSIVE AltsOf(_)
AltsOf(a) ==
    IF a = <<>> THEN <<>>
    ELSE LET alt == AsArray(Get(Head(a), "alternatives"))
         IN  (IF IsSome(alt) THEN TextsOf(alt.a) ELSE <<>>) \o AltsOf(Tail(a))

\* texts_zero.map(|v| v.as_array()).flatten().map(|arr| for value in arr ...)
ExtractAlternatives(body) ==
    LET outer == AsArray(TextsZero(body))
    IN  IF IsSome(outer) THEN AltsOf(outer.a) ELSE <<>>

\* texts_zero -> .get("text") -> as_str -> unwrap_or_default
ExtractData(body) ==
    LET s == AsStr(Get(TextsZero(body), "text"))
    IN  IF IsSome(s) THEN s.s ELSE ""

(* --------------------------- upstream status -------------------------- *)
\* Response::error_for_status: Err exactly on a client or server error
ErrorForStatus(s) == s >= 400 /\ s < 600

\* Classify with error_for_status consulted before the 429 test
ClassifyErrorFirst(s) ==
    IF ErrorForStatus(s) THEN "InternalError"
    ELSE IF s = TOO_MANY_REQUESTS THEN "RateLimited"
    ELSE "parse"

\* translate, lines 183-191: what the handler does with a response of status s
Classify(s) ==
    IF s = TOO_MANY_REQUESTS THEN "RateLimited"
    ELSE IF ErrorForStatus(s) THEN "InternalError"
    ELSE "parse"

(* ------------------------------- state -------------------------------- *)
VARIABLES
    proxies,     \* BootArgs.proxies
    apiKey,      \* AppState.api_key
    phase,       \* Serve::run: "boot", "serving" or "aborted"
    clientSet,   \* CLIENT (OnceLock) holds a pool
    poolLen,     \* Client.1.len()
    cursor,      \* Client.0, the AtomicU32
    pc,          \* each request's position in translate
    auth,        \* each request's bearer token (NoKey: none, or consumed)
    old,         \* next(): local `old` (0 outside the retry loop)
    client,      \* index of the pool client the request holds, -1 if none
    sent,        \* POSTs the request has issued upstream
    status,      \* upstream HTTP status received, 0 before
    parsed,      \* the upstream body was handed to the JSON parser
    body,        \* the upstream body as parsed
    kind,        \* how the request ended
    data,        \* FlatResponse.data
    alternatives, \* FlatResponse.alternatives
    \* one request's synthesis, followed on its own (translate, lines 141-179
    \* and 229-240)
    spc,         \* its position: "off" when not followed
    rnd,         \* the number gen_range drew
    id,          \* `id`, the payload id
    payload,     \* `body`, the serialized payload as rewritten
    posted,      \* the body handed to the POST
    respId,      \* FlatResponse.id
    text,        \* PayloadFree.text, a sequence of characters
    nowMs,       \* the clock, in ms since the epoch (negative: before it)
    timestamp    \* params.timestamp

vars == <<proxies, apiKey, phase, clientSet, poolLen, cursor, pc, auth, old,
          client, sent, status, parsed, body, kind, data, alternatives,
          spc, rnd, id, payload, posted, respId, text, nowMs, timestamp>>

poolVars == <<proxies, apiKey, phase, clientSet, poolLen>>
replyVars == <<status, parsed, body, data, alternatives>>
synthVars == <<spc, rnd, id, payload, posted, respId, text, nowMs, timestamp>>

\* HTTP status of each ending (actix_web::error::Error* helpers, HttpResponse::Ok)
HttpCode(k) ==
    CASE k = "Ok" -> 200
      [] k = "Unauthorized" -> 401
      [] k = "RateLimited" -> 429
      [] k = "InternalError" -> 500
      [] k = "BadGateway" -> 502
      [] OTHER -> 0

\* the fixed messages of the error responses (lines 185, 252, 295)
Message(k) ==
    CASE k = "RateLimited" ->
           "Too many requests, your IP has been blocked by DeepL temporarily, please don't request it frequently in a short time."
      [] k = "Unauthorized" -> "You are not authorized"
      [] OTHER -> ""

\* the synthesis variables while no single request is followed
SynthOff ==
    /\ spc = "off"
    /\ rnd = 0
    /\ id = [k |-> 0, u |-> 0]
    /\ payload = <<>>
    /\ posted = <<>>
    /\ respId = [k |-> 0, u |-> 0]
    /\ text = <<>>
    /\ nowMs = 0
    /\ timestamp = 0

Init ==
    /\ SynthOff
    /\ proxies \in ProxyConfigs
    /\ apiKey \in {NoKey} \cup Keys
    /\ phase = "boot"
    /\ clientSet = FALSE
    /\ poolLen = 0
    /\ cursor = 0
    /\ pc = [r \in Reqs |-> "verify"]
    /\ auth \in [Reqs -> {NoKey} \cup Tokens]
    /\ old = [r \in Reqs |-> 0]
    /\ client = [r \in Reqs |-> -1]
    /\ sent = [r \in Reqs |-> 0]
    /\ status = [r \in Reqs |-> 0]
    /\ parsed = [r \in Reqs |-> FALSE]
    /\ body = [r \in Reqs |-> Absent]
    /\ kind = [r \in Reqs |-> "pending"]
    /\ data = [r \in Reqs |-> ""]
    /\ alternatives = [r \in Reqs |-> <<>>]

(* ------------------------------ startup ------------------------------- *)
\* Client::new: the number of clients built, or -1 when a build_client fails
\* (reqwest::Proxy::all rejects the address and `?` returns the error)
ClientNew(p) ==
    IF p.some
    THEN IF \E i \in 1..Len(p.addrs) : p.addrs[i] = "bad" THEN -1 ELSE Len(p.addrs)
    ELSE 1

\* Run starting the listener without installing the pool in CLIENT
RunSkipsSet ==
    /\ phase = "boot"
    /\ IF ClientNew(proxies) < 0
       THEN phase' = "aborted"
       ELSE phase' = "serving"
    /\ UNCHANGED <<clientSet, poolLen, cursor>>
    /\ UNCHANGED <<proxies, apiKey, pc, auth, old, client, sent, kind>>
    /\ UNCHANGED replyVars
    /\ UNCHANGED synthVars

\* Serve::run up to the start of the listener: build the pool, install it in
\* CLIENT with the cursor at 0, then serve; a failed build aborts startup
Run ==
    /\ phase = "boot"
    /\ IF ClientNew(proxies) < 0
       THEN /\ phase' = "aborted"
            /\ UNCHANGED <<clientSet, poolLen, cursor>>
       ELSE /\ phase' = "serving"
            /\ clientSet' = TRUE
            /\ poolLen' = ClientNew(proxies)
            /\ cursor' = 0
    /\ UNCHANGED <<proxies, apiKey, pc, auth, old, client, sent, kind>>
    /\ UNCHANGED replyVars
    /\ UNCHANGED synthVars

(* ------------------------------ auth gate ----------------------------- *)
\* verify_api_key comparing a presented token even when no key is configured
VerifyApiKeyNeedsKey(a, key) == ~(a # NoKey /\ a # key)

\* verify_api_key: TRUE when it returns Ok(())
VerifyApiKey(a, key) == ~(a # NoKey /\ key # NoKey /\ a # key)

\* a request ends, with a response or a panic of kind k
Fail(r, k) ==
    /\ pc' = [pc EXCEPT ![r] = "done"]
    /\ kind' = [kind EXCEPT ![r] = k]

\* translate, line 140: `auth` is moved into verify_api_key and dropped there
Verify(r) ==
    /\ phase = "serving"
    /\ pc[r] = "verify"
    /\ IF VerifyApiKey(auth[r], apiKey)
       THEN pc' = [pc EXCEPT ![r] = "synth"] /\ UNCHANGED kind
       ELSE Fail(r, "Unauthorized")
    /\ auth' = [auth EXCEPT ![r] = NoKey]
    /\ UNCHANGED <<cursor, old, client, sent>>
    /\ UNCHANGED poolVars
    /\ UNCHANGED replyVars
    /\ UNCHANGED synthVars

(* --------------------------- request synthesis ------------------------ *)
\* translate, lines 141-172: the payload is built; get_timestamp fails when
\* the clock reads before the epoch
Synth(r) ==
    /\ pc[r] = "synth"
    /\ \E clockOk \in BOOLEAN :
          IF clockOk
          THEN pc' = [pc EXCEPT ![r] = "get_client"] /\ UNCHANGED kind
          ELSE Fail(r, "InternalError")
    /\ UNCHANGED <<cursor, auth, old, client, sent>>
    /\ UNCHANGED poolVars
    /\ UNCHANGED replyVars
    /\ UNCHANGED synthVars

(* ------------------------------ the pool ------------------------------ *)
\* Successor without the reduction modulo the pool length
SuccessorNoWrap(o, len) == o + 1

\* next(): new = (old + 1) % len. The cursor is a u32 and `old` is a value
\* read from it, below the pool length wherever this is applied, so old + 1
\* is taken without wrap-around.
Successor(o, len) == (o + 1) % len

\* GetClient without the shortcut for a pool of one
GetClientNoShortcut(r) ==
    /\ pc[r] = "get_client"
    /\ IF ~clientSet
       THEN Fail(r, "InternalError") /\ UNCHANGED <<old, client>>
       ELSE IF poolLen = 0
       THEN Fail(r, "Panic") /\ UNCHANGED <<old, client>>
       ELSE /\ old' = [old EXCEPT ![r] = cursor]
            /\ pc' = [pc EXCEPT ![r] = "cas"]
            /\ UNCHANGED <<client, kind>>
    /\ UNCHANGED <<cursor, auth, sent>>
    /\ UNCHANGED poolVars
    /\ UNCHANGED replyVars
    /\ UNCHANGED synthVars

\* get_client and the entry of Client::next: an unset CLIENT is an internal
\* error; a pool of one returns its sole client; otherwise the cursor is
\* loaded and the retry loop entered. The first `% len` of the loop divides
\* by zero on an empty pool and the handler panics.
GetClient(r) ==
    /\ pc[r] = "get_client"
    /\ IF ~clientSet
       THEN Fail(r, "InternalError") /\ UNCHANGED <<old, client>>
       ELSE IF poolLen = 1
       THEN /\ client' = [client EXCEPT ![r] = 0]
            /\ pc' = [pc EXCEPT ![r] = "send"]
            /\ UNCHANGED <<old, kind>>
       ELSE IF poolLen = 0
       THEN Fail(r, "Panic") /\ UNCHANGED <<old, client>>
       ELSE /\ old' = [old EXCEPT ![r] = cursor]
            /\ pc' = [pc EXCEPT ![r] = "cas"]
            /\ UNCHANGED <<client, kind>>
    /\ UNCHANGED <<cursor, auth, sent>>
    /\ UNCHANGED poolVars
    /\ UNCHANGED replyVars
    /\ UNCHANGED synthVars

\* CasOk as a plain store of `new`, whatever the cursor holds by then
CasOkLost(r) ==
    /\ pc[r] = "cas"
    /\ cursor' = Successor(old[r], poolLen)
    /\ client' = [client EXCEPT ![r] = Successor(old[r], poolLen)]
    /\ old' = [old EXCEPT ![r] = 0]
    /\ pc' = [pc EXCEPT ![r] = "send"]
    /\ UNCHANGED <<auth, sent, kind>>
    /\ UNCHANGED poolVars
    /\ UNCHANGED replyVars
    /\ UNCHANGED synthVars

\* CasOk returning pool[old] in place of pool[new]
CasOkReturnsOld(r) ==
    /\ pc[r] = "cas"
    /\ cursor = old[r]
    /\ cursor' = Successor(old[r], poolLen)
    /\ client' = [client EXCEPT ![r] = old[r]]
    /\ old' = [old EXCEPT ![r] = 0]
    /\ pc' = [pc EXCEPT ![r] = "send"]
    /\ UNCHANGED <<auth, sent, kind>>
    /\ UNCHANGED poolVars
    /\ UNCHANGED replyVars
    /\ UNCHANGED synthVars

\* compare_exchange_weak succeeds: the cursor still holds `old`, `new` is
\* installed, the loop breaks and pool[new] is returned (the locals go)
CasOk(r) ==
    /\ pc[r] = "cas"
    /\ cursor = old[r]
    /\ cursor' = Successor(old[r], poolLen)
    /\ client' = [client EXCEPT ![r] = Successor(old[r], poolLen)]
    /\ old' = [old EXCEPT ![r] = 0]
    /\ pc' = [pc EXCEPT ![r] = "send"]
    /\ UNCHANGED <<auth, sent, kind>>
    /\ UNCHANGED poolVars
    /\ UNCHANGED replyVars
    /\ UNCHANGED synthVars

\* CasFail with `Err(x) => old = x` dropping the assignment
CasFailKeepsOld(r) ==
    /\ pc[r] = "cas"
    /\ UNCHANGED vars

\* compare_exchange_weak fails, because the cursor moved or spuriously: `old`
\* takes the value found and the loop goes round
CasFail(r) ==
    /\ pc[r] = "cas"
    /\ old' = [old EXCEPT ![r] = cursor]
    /\ UNCHANGED <<cursor, pc, auth, client, sent, kind>>
    /\ UNCHANGED poolVars
    /\ UNCHANGED replyVars
    /\ UNCHANGED synthVars

(* --------------------------- upstream invoker ------------------------- *)
\* Send giving the cursor back when the transport fails
SendRollsBack(r) ==
    /\ pc[r] = "send"
    /\ sent' = [sent EXCEPT ![r] = sent[r] + 1]
    /\ client' = [client EXCEPT ![r] = -1]
    /\ \/ /\ Fail(r, "BadGateway")
          /\ cursor' = (cursor + poolLen - 1) % poolLen
          /\ UNCHANGED status
       \/ \E s \in Statuses :
             /\ status' = [status EXCEPT ![r] = s]
             /\ pc' = [pc EXCEPT ![r] = "recv"]
             /\ UNCHANGED <<kind, cursor>>
    /\ UNCHANGED <<auth, old, parsed, body, data, alternatives>>
    /\ UNCHANGED poolVars
    /\ UNCHANGED synthVars

\* translate, lines 174-181: the POST is sent with the chosen client, which
\* is a temporary of that statement; either the transport fails (bad
\* gateway) or a response with some status arrives
Send(r) ==
    /\ pc[r] = "send"
    /\ sent' = [sent EXCEPT ![r] = sent[r] + 1]
    /\ client' = [client EXCEPT ![r] = -1]
    /\ \/ /\ Fail(r, "BadGateway")
          /\ UNCHANGED status
       \/ \E s \in Statuses :
             /\ status' = [status EXCEPT ![r] = s]
             /\ pc' = [pc EXCEPT ![r] = "recv"]
             /\ UNCHANGED kind
    /\ UNCHANGED <<cursor, auth, old, parsed, body, data, alternatives>>
    /\ UNCHANGED poolVars
    /\ UNCHANGED synthVars

\* translate, lines 183-240: classify the status, read and parse the body,
\* extract the primary text and the alternatives, answer 200
Receive(r) ==
    /\ pc[r] = "recv"
    /\ IF Classify(status[r]) # "parse"
       THEN /\ Fail(r, Classify(status[r]))
            /\ UNCHANGED <<parsed, body, data, alternatives>>
       ELSE /\ parsed' = [parsed EXCEPT ![r] = TRUE]
            /\ \E b \in Bodies :
                  IF b = NotJson
                  THEN Fail(r, "BadGateway") /\ UNCHANGED <<body, data, alternatives>>
                  ELSE /\ body' = [body EXCEPT ![r] = b]
                       /\ data' = [data EXCEPT ![r] = ExtractData(b)]
                       /\ alternatives' =
                             [alternatives EXCEPT ![r] = ExtractAlternatives(b)]
                       /\ Fail(r, "Ok")
    /\ UNCHANGED <<cursor, auth, old, client, sent, status>>
    /\ UNCHANGED poolVars
    /\ UNCHANGED synthVars

(* ------------------- request synthesis, in detail --------------------- *)
(* The payload id is near 8.3e9, beyond the integers the checker holds, so  *)
(* a u64 quantity q is kept as [k, u] with q = k * 1000 + u, 0 <= u < 1000. *)
RAND_END == 99999          \* gen_range(0..99999): the excluded upper end
ID_BASE == 8300000         \* ... + 8300000
ID_SCALE == 1000           \* num * 1000

\* rng.gen_range(lo..hi): the half-open range
GenRange(lo, hi) == lo..(hi - 1)

\* q + n and q mod m for a small n and m, on the [k, u] form
AddSmall(q, n) == [k |-> q.k + ((q.u + n) \div ID_SCALE), u |-> (q.u + n) % ID_SCALE]
ModSmall(q, m) == ((q.k % m) * (ID_SCALE % m) + q.u) % m

\* get_random_number without the multiplication by 1000
GetRandomNumberUnscaled(r) ==
    [k |-> (r + ID_BASE) \div ID_SCALE, u |-> (r + ID_BASE) % ID_SCALE]

\* get_random_number for the draw r: (r + 8300000) * 1000
GetRandomNumber(r) == [k |-> r + ID_BASE, u |-> 0]

\* translate, line 141: let id = get_random_number() + 1
PayloadId(r) == AddSmall(GetRandomNumber(r), 1)

\* the serialized payload as a sequence of pieces: literal text and numbers
Lit(str) == [t |-> "lit", s |-> str]
NumTok(q) == [t |-> "num", n |-> q]

\* serde_json::to_string(&post_data): compact, ":" with no space; the keys
\* of the outer object with the method key a piece of its own
Serialize(q) ==
    << Lit("{\"id\":"), NumTok(q), Lit(",\"jsonrpc\":\"2.0\","),
       Lit("\"method\":\""), Lit("LMT_handle_texts\",\"params\":{...}}") >>

\* str::replace(from, to) over the pieces: every piece equal to `from`
Replace(b, from, to) ==
    [i \in DOMAIN b |-> IF b[i].t = "lit" /\ b[i].s = from THEN Lit(to) ELSE b[i]]

\* Spaced with `&&` in place of `||`
SpacedBoth(q) == ModSmall(AddSmall(q, 5), 29) = 0 /\ ModSmall(AddSmall(q, 3), 13) = 0

\* translate, line 168: (id + 5) % 29 == 0 || (id + 3) % 13 == 0
Spaced(q) == ModSmall(AddSmall(q, 5), 29) = 0 \/ ModSmall(AddSmall(q, 3), 13) = 0

\* translate, lines 166-172
Rewrite(q) ==
    IF Spaced(q)
    THEN Replace(Serialize(q), "\"method\":\"", "\"method\" : \"")
    ELSE Replace(Serialize(q), "\"method\":\"", "\"method\": \"")

\* the rest of the state while one request's synthesis is followed: a
\* server started without proxies or key, its other requests yet to begin
MainIdle ==
    /\ proxies = [some |-> FALSE, addrs |-> <<>>]
    /\ apiKey = NoKey
    /\ phase = "serving"
    /\ clientSet = TRUE
    /\ poolLen = 1
    /\ cursor = 0
    /\ pc = [r \in Reqs |-> "verify"]
    /\ auth = [r \in Reqs |-> NoKey]
    /\ old = [r \in Reqs |-> 0]
    /\ client = [r \in Reqs |-> -1]
    /\ sent = [r \in Reqs |-> 0]
    /\ status = [r \in Reqs |-> 0]
    /\ parsed = [r \in Reqs |-> FALSE]
    /\ body = [r \in Reqs |-> Absent]
    /\ kind = [r \in Reqs |-> "pending"]
    /\ data = [r \in Reqs |-> ""]
    /\ alternatives = [r \in Reqs |-> <<>>]

mainVars == <<proxies, apiKey, phase, clientSet, poolLen, cursor, pc, auth, old,
              client, sent, status, parsed, body, kind, data, alternatives>>

\* a request about to draw its id
IdInit ==
    /\ MainIdle
    /\ spc = "draw"
    /\ rnd = 0
    /\ id = [k |-> 0, u |-> 0]
    /\ payload = <<>>
    /\ posted = <<>>
    /\ respId = [k |-> 0, u |-> 0]
    /\ text = <<>>
    /\ nowMs = 0
    /\ timestamp = 0

\* translate, lines 141-172: draw, derive the id, serialize and rewrite
SynthId ==
    /\ spc = "draw"
    /\ \E r \in GenRange(0, RAND_END) :
          /\ rnd' = r
          /\ id' = PayloadId(r)
          /\ payload' = Rewrite(PayloadId(r))
    /\ spc' = "built"
    /\ UNCHANGED <<posted, respId, text, nowMs, timestamp>>
    /\ UNCHANGED mainVars

\* translate, lines 174-179: .body(body), the string as rewritten
PostBody ==
    /\ spc = "built"
    /\ posted' = payload
    /\ spc' = "posted"
    /\ UNCHANGED <<rnd, id, payload, respId, text, nowMs, timestamp>>
    /\ UNCHANGED mainVars

\* translate, lines 229-240: the flat response echoes `id`
Respond ==
    /\ spc = "posted"
    /\ respId' = id
    /\ spc' = "answered"
    /\ UNCHANGED <<rnd, id, payload, posted, text, nowMs, timestamp>>
    /\ UNCHANGED mainVars

IdNext == SynthId \/ PostBody \/ Respond

IdSpec == IdInit /\ [][IdNext]_vars

(* ----------------------------- the timestamp ------------------------- *)
Alphabet == {"i", "I", "x"}          \* characters of a request text

\* get_i_count: translate_text.matches('i').count()
RECURSIVE GetICount(_)
GetICount(txt) ==
    IF txt = <<>> THEN 0
    ELSE (IF Head(txt) = "i" THEN 1 ELSE 0) + GetICount(Tail(txt))

\* get_timestamp rounding down without the advance by i_count
GetTimestampRoundsDown(now, c) ==
    IF c = 0 THEN now ELSE now - (now % c)

\* get_timestamp, lines 282-287, for the clock value in_ms = now (a u128:
\* the sum stays far below its width)
GetTimestamp(now, c) ==
    IF c = 0 THEN now ELSE now - (now % c) + c

\* a request with some text, about to read the clock
TimeInit ==
    /\ MainIdle
    /\ spc = "clock"
    /\ text \in SeqsUpTo(Alphabet, MaxTextLen)
    /\ rnd = 0
    /\ id = [k |-> 0, u |-> 0]
    /\ payload = <<>>
    /\ posted = <<>>
    /\ respId = [k |-> 0, u |-> 0]
    /\ nowMs = 0
    /\ timestamp = 0

\* translate, line 158: get_timestamp(get_i_count(&req.text))?; a clock
\* before the epoch makes duration_since fail
Stamp ==
    /\ spc = "clock"
    /\ \E now \in (-1)..MaxNow :
          /\ nowMs' = now
          /\ IF now < 0
             THEN spc' = "failed" /\ UNCHANGED timestamp
             ELSE /\ timestamp' = GetTimestamp(now, GetICount(text))
                  /\ spc' = "stamped"
    /\ UNCHANGED <<rnd, id, payload, posted, respId, text>>
    /\ UNCHANGED mainVars

TimeNext == Stamp

TimeSpec == TimeInit /\ [][TimeNext]_vars

(* ---------------------------- specification --------------------------- *)
Next ==
    \/ Run
    \/ \E r \in Reqs : Verify(r)
    \/ \E r \in Reqs : Synth(r)
    \/ \E r \in Reqs : GetClient(r)
    \/ \E r \in Reqs : CasOk(r)
    \/ \E r \in Reqs : CasFail(r)
    \/ \E r \in Reqs : Send(r)
    \/ \E r \in Reqs : Receive(r)

Spec == Init /\ [][Next]_vars

\* Every request task that is inside the retry loop keeps being scheduled,
\* and a weak compare-exchange does not fail spuriously for ever.
FairSpec ==
    Spec /\ \A r \in Reqs : WF_vars(CasOk(r) \/ CasFail(r))

TypeOK ==
    /\ phase \in {"boot", "serving", "aborted"}
    /\ poolLen \in 0..MaxProxies
    /\ \A r \in Reqs : pc[r] \in {"verify", "synth", "get_client", "cas", "send", "recv", "done"}

(* ------------------------------ the claims ---------------------------- *)
Is2xx(s) == s >= 200 /\ s < 300

\* the request has come back from next() with a client
Called(r) == client[r] # -1 \/ sent[r] > 0

\* C1: with an API key configured, a request whose bearer credential is
\* absent or differs from the key leaves the auth gate with an Unauthorized
\* (401) response, finished, and with no POST sent.
C1_UnauthorizedBeforeUpstream ==
    [][\A r \in Reqs :
          (pc[r] = "verify" /\ pc'[r] # "verify"
             /\ apiKey # NoKey /\ auth[r] # apiKey)
          => (pc'[r] = "done" /\ kind'[r] = "Unauthorized"
                /\ HttpCode(kind'[r]) = 401 /\ sent'[r] = 0)]_vars

\* C2: when texts[0] of a parsed body is an object carrying an
\* `alternatives` array, the flat response's alternatives are the string
\* `.text` values of that array's elements, in order.
C2_AlternativesOfFirstText ==
    \A r \in Reqs :
       kind[r] = "Ok" =>
          LET t0 == TextsZero(body[r])
              alt == AsArray(Get(t0, "alternatives"))
          IN  (t0.t = "obj" /\ IsSome(alt)) => alternatives[r] = TextsOf(alt.a)

\* C3: a request whose upstream status is neither 2xx nor 429 ends with an
\* internal error (500), its body never handed to the parser.
C3_OtherStatusIsInternalError ==
    \A r \in Reqs :
       (pc[r] = "done" /\ status[r] # 0
          /\ ~Is2xx(status[r]) /\ status[r] # TOO_MANY_REQUESTS)
       => (kind[r] = "InternalError" /\ HttpCode(kind[r]) = 500 /\ ~parsed[r])

\* C4: a pool that Client::new built holds at least one client (one per
\* proxy address, or one proxy-less client when there is no address), and
\* next() never fails on it.
C4_PoolNeverEmpty ==
    phase = "serving" =>
       /\ poolLen >= 1
       /\ poolLen = (IF Len(proxies.addrs) = 0 THEN 1 ELSE Len(proxies.addrs))
       /\ \A r \in Reqs : kind[r] # "Panic"

\* C5: on a pool of n >= 2 no cursor update is lost: in every state the
\* cursor equals (0 + the number of calls whose swap has succeeded) mod n,
\* whatever the interleaving, so no two calls install the same successor of
\* one cursor state.
C5_NoLostUpdate ==
    poolLen >= 2 =>
       cursor = Cardinality({r \in Reqs : Called(r)}) % poolLen

\* a caller inside the loop whose `old` is stale because another call's swap
\* went first
C5_Witness ==
    \E r, q \in Reqs :
       r # q /\ poolLen >= 2 /\ pc[r] = "cas" /\ old[r] # cursor /\ Called(q)

\* C6: on a pool of n >= 2, starting from cursor 0, the k-th call of next()
\* to complete returns the client at index k mod n: 1, 2, ..., n-1, 0, ...
\* with none skipped or repeated.
C6_RoundRobinOrder ==
    [][\A r \in Reqs :
          (poolLen >= 2 /\ client[r] = -1 /\ client'[r] # -1)
          => client'[r] =
                Cardinality({q \in Reqs : client'[q] # -1 \/ sent'[q] > 0}) % poolLen]_vars

\* calls made one after the other have wrapped round to index 0
C6_Witness ==
    \E r, q \in Reqs :
       /\ r # q /\ poolLen >= 2
       /\ client[r] = 0 /\ cursor = 0 /\ sent[q] > 0
       /\ \A x \in Reqs : pc[x] # "cas"

\* C7: every caller that is in the compare-and-swap retry loop leaves it
\* holding a client of the pool, under fair scheduling of the callers.
C7_LoopTerminates ==
    \A r \in Reqs :
       (pc[r] = "cas") ~> (pc[r] = "send" /\ client[r] \in 0..(poolLen - 1))

\* the last caller still running must retry: its `old` is stale
C7_Witness ==
    \E r \in Reqs :
       /\ pc[r] = "cas" /\ old[r] # cursor
       /\ \A q \in Reqs \ {r} : pc[q] = "done"

\* C8: a request answered 429 by the upstream ends with the RateLimited (429)
\* error and its message, its body never handed to the parser, after a
\* single POST.
C8_RateLimited ==
    \A r \in Reqs :
       (pc[r] = "done" /\ status[r] = 429)
       => /\ kind[r] = "RateLimited"
          /\ HttpCode(kind[r]) = 429
          /\ Message(kind[r]) =
               "Too many requests, your IP has been blocked by DeepL temporarily, please don't request it frequently in a short time."
          /\ ~parsed[r] /\ ~IsSome(body[r])
          /\ data[r] = "" /\ alternatives[r] = <<>>
          /\ sent[r] = 1

C8_Witness ==
    \E r \in Reqs : pc[r] = "done" /\ status[r] = 429 /\ sent[r] = 1

\* C9: once a 2xx body has parsed as JSON the request ends with the 200 flat
\* response, and when result -> texts -> element 0 does not lead to an
\* object, data is "" and alternatives is empty.
C9_ExtractionDegrades ==
    \A r \in Reqs :
       (pc[r] = "done" /\ Is2xx(status[r]) /\ IsSome(body[r]))
       => /\ kind[r] = "Ok" /\ HttpCode(kind[r]) = 200
          /\ TextsZero(body[r]).t # "obj"
                => (data[r] = "" /\ alternatives[r] = <<>>)

\* C10: a request sends at most one POST, and every failure of the upstream
\* call (transport failure, a status that is not 2xx, a body that is not
\* JSON) is answered with an error response.
C10_SingleShotSurfaced ==
    \A r \in Reqs :
       /\ sent[r] <= 1
       /\ (pc[r] = "done" /\ sent[r] = 1
             /\ ~(Is2xx(status[r]) /\ IsSome(body[r])))
          => HttpCode(kind[r]) >= 400

\* C14: the auth gate lets a request through to synthesis and the upstream
\* call whenever no API key is configured, with or without a bearer token,
\* and whenever the token presented equals the configured key.
C14_GatePasses ==
    [][\A r \in Reqs :
          (pc[r] = "verify" /\ pc'[r] # "verify"
             /\ (apiKey = NoKey \/ auth[r] = apiKey))
          => (pc'[r] = "synth" /\ kind'[r] = "pending")]_vars

\* a request through the gate of a server with no key configured
C14_Witness ==
    \E r \in Reqs : apiKey = NoKey /\ pc[r] = "synth" /\ kind[r] = "pending"

\* C16: on a pool of n >= 2 the cursor lies in 0..n-1 in every state, from
\* 0 on; so does every value read from it (old + 1 stays within n) and
\* every index next() selects a client with.
C16_CursorInRange ==
    poolLen >= 2 =>
       /\ cursor \in 0..(poolLen - 1)
       /\ \A r \in Reqs :
             /\ old[r] \in 0..(poolLen - 1)
             /\ old[r] + 1 <= poolLen
             /\ client[r] # -1 => client[r] \in 0..(poolLen - 1)

\* the cursor back at 0 after calls on a pool of n >= 2, a request holding
\* the client at index 0
C16_Witness ==
    /\ poolLen >= 2 /\ cursor = 0
    /\ \E r \in Reqs : pc[r] = "send" /\ client[r] = 0

\* C17: on a pool of exactly one client next() hands out the client at
\* index 0 without entering the retry loop: no request reads the cursor
\* into `old` and the cursor stays 0.
C17_SoleClientNoCursor ==
    (phase = "serving" /\ poolLen = 1) =>
       /\ cursor = 0
       /\ \A r \in Reqs :
             /\ pc[r] # "cas"
             /\ old[r] = 0
             /\ client[r] \in {-1, 0}

\* every request has been through next() on a pool of one
C17_Witness ==
    /\ poolLen = 1
    /\ \A r \in Reqs : Called(r)
    /\ \E r \in Reqs : client[r] = 0

\* C18: on a pool of n >= 2 the only step of a request that changes the
\* cursor is the successful swap, which advances it by one and is taken
\* once, between get_client and the POST; the auth gate, synthesis, the
\* POST and the handling of the reply, whatever their outcome, leave it.
C18_CursorOncePerRequest ==
    [][poolLen >= 2 =>
         \A r \in Reqs :
            /\ (pc[r] \in {"verify", "synth", "get_client", "send", "recv"}
                  /\ pc'[r] # pc[r]) => cursor' = cursor
            /\ (pc[r] = "get_client" /\ pc'[r] # pc[r]) => pc'[r] = "cas"
            /\ (pc[r] = "cas" /\ pc'[r] # "cas")
                  => (pc'[r] = "send" /\ cursor' = (cursor + 1) % poolLen)
            /\ pc[r] \in {"send", "recv", "done"}
                  => pc'[r] \in {"send", "recv", "done"}]_vars

\* one request ended by a transport failure after its swap, every other
\* one rejected by the auth gate: the cursor has advanced once
C18_Witness ==
    \E r \in Reqs :
       /\ poolLen >= 2 /\ cursor = 1
       /\ pc[r] = "done" /\ kind[r] = "BadGateway" /\ status[r] = 0
       /\ \A q \in Reqs \ {r} : kind[q] = "Unauthorized"

\* C19: no request is handled before the pool is installed in CLIENT, the
\* installed pool is never replaced, so get_client never finds CLIENT
\* unset; when the pool cannot be built no request is handled at all.
C19_PoolInstalledFirst ==
    /\ [](/\ phase = "serving" => clientSet
          /\ phase # "serving" => \A r \in Reqs : pc[r] = "verify" /\ kind[r] = "pending"
          /\ phase = "aborted" => ~clientSet
          /\ \A r \in Reqs : pc[r] = "get_client" => clientSet)
    /\ [][clientSet => (clientSet' /\ poolLen' = poolLen /\ phase' = "serving")]_vars

\* a request has taken a client from the installed pool
C19_Witness ==
    \E r \in Reqs : phase = "serving" /\ clientSet /\ pc[r] = "send"

(* The claims on request synthesis are settled on one request followed   *)
(* alone: IdSpec for the id and the formatting, TimeSpec for the timestamp. *)

\* C11: the payload id is (r + 8,300,000) * 1,000 + 1 for a draw r, every r
\* of 0..99999 being a draw the generator can make, and no other id arises.
C11_IdRange ==
    /\ \A r \in 0..99999 : r \in GenRange(0, RAND_END)
    /\ spc # "draw" =>
          (rnd \in 0..99999 /\ id = [k |-> rnd + 8300000, u |-> 1])

\* the number of characters `i` of the text
ICount == Cardinality({j \in DOMAIN text : text[j] = "i"})

\* C12: the timestamp is the clock value when the text has no `i`; with
\* i_count > 0 it is now - (now mod i_count) + i_count, a multiple of
\* i_count, above now and at most now + i_count.
C12_Timestamp ==
    spc = "stamped" =>
       /\ ICount = 0 => timestamp = nowMs
       /\ ICount > 0 =>
             /\ timestamp = nowMs - (nowMs % ICount) + ICount
             /\ timestamp % ICount = 0
             /\ timestamp > nowMs
             /\ timestamp <= nowMs + ICount

\* a text with several `i` (and other characters) at a clock value that is
\* not a multiple of their number
C12_Witness ==
    /\ spc = "stamped" /\ ICount >= 2 /\ ICount < Len(text)
    /\ nowMs % ICount # 0

\* C13: the id in the payload, in the body posted and in the flat response
\* is 1 modulo 1000.
C13_IdMod1000 ==
    /\ spc \in {"built", "posted", "answered"} =>
          (id.u = 1 /\ payload[2] = NumTok(id) /\ payload[2].n.u % 1000 = 1)
    /\ spc \in {"posted", "answered"} => posted[2].n.u % 1000 = 1
    /\ spc = "answered" => (respId = id /\ respId.u % 1000 = 1)

\* the largest draw, answered
C13_Witness == spc = "answered" /\ rnd = 99998 /\ respId.k = 8399998

\* how often a literal piece occurs in a body
Occurs(b, str) == Cardinality({i \in DOMAIN b : b[i].t = "lit" /\ b[i].s = str})

\* (id + n) mod m for the id of the draw: id = (rnd + 8300000) * 1000 + 1
IdPlusMod(n, m) == (((rnd + 8300000) % m) * (1000 % m) + 1 + n) % m

\* C15: the method key is written `"method" : "` exactly when
\* (id + 5) mod 29 = 0 or (id + 3) mod 13 = 0 and `"method": "` otherwise,
\* one of the two in every body, and the body is posted as rewritten.
C15_FormatVariant ==
    /\ spc # "draw" =>
          /\ Occurs(payload, "\"method\":\"") = 0
          /\ Occurs(payload, "\"method\" : \"") + Occurs(payload, "\"method\": \"") = 1
          /\ Occurs(payload, "\"method\" : \"") = 1
                <=> (IdPlusMod(5, 29) = 0 \/ IdPlusMod(3, 13) = 0)
    /\ spc \in {"posted", "answered"} => posted = payload

\* a body with spaces on both sides of the colon, by the mod-13 test alone,
\* posted
C15_Witness ==
    /\ spc = "posted"
    /\ Occurs(posted, "\"method\" : \"") = 1
    /\ IdPlusMod(5, 29) # 0

====
